---- MODULE Spec2Model ----
(***************************************************************************)
(* State-machine model of src/app.py: the news-trend dashboard.            *)
(*                                                                         *)
(* The model covers the Report Store (st.session_state.reports), the       *)
(* Article Source Client (guardian_search), the memoized Report Generator  *)
(* (generate_analysis under st.cache_data) and the Run Orchestrator        *)
(* (run_agent) together with the two buttons that start it.                *)
(*                                                                         *)
(* Abstractions:                                                           *)
(*  - an article (a JSON object of the search API) is an atom of Articles; *)
(*  - a model completion is an atom of Texts; completions are taken to be  *)
(*    different from the two fixed sentences of the program;               *)
(*  - datetime.now() is the index of the run that builds the record.       *)
(***************************************************************************)
EXTENDS Integers, Sequences, FiniteSets, TLC

\* ------------------------------------------------------------ bounds
MaxArticles == 1      \* longest article list a search returns
MaxKeywords == 2      \* longest keyword list entered in the text input
MaxRuns     == 2      \* number of button clicks that start run_agent
MaxCalls    == 2      \* number of direct generate_analysis calls (SpecGen)

Keywords == {"k1", "k2"}
Articles == {"a1", "a2"}
Texts    == {"t1", "t2"}

\* ------------------------------------------------------------ values
\* line 69: the sentence trend_change_text starts with
NoDataText == "No previous search data available to compare trend changes."
\* line 110: the sentence the summary gets when its model call raises
SummaryFailedText == "Failed to generate the summary report."

ArticleLists == UNION {[1..n -> Articles] : n \in 0..MaxArticles}
KeywordLists == UNION {[1..n -> Keywords] : n \in 1..MaxKeywords}

\* Python's None and a list, as one comparable value.
None     == [some |-> FALSE, val |-> <<>>]
Some(l)  == [some |-> TRUE, val |-> l]
Optionals == {None} \cup {Some(l) : l \in ArticleLists}

\* Variant: `if x is not None:`, which takes the empty list for data.
TruthyNotNone(x) == x.some

\* `if x:` / `not x` on an optional list: None and [] are falsy.
Truthy(x) == x.some /\ x.val # <<>>

\* What requests.get + raise_for_status + json() can produce: an exception,
\* or an envelope whose response.results is a (possibly empty) list.
SearchResponses ==
    {[ok |-> FALSE, results |-> <<>>]}
        \cup {[ok |-> TRUE, results |-> l] : l \in ArticleLists}

\* What client.chat.completions.create can produce: an exception, or a text.
ModelResponses ==
    {[ok |-> FALSE, content |-> ""]}
        \cup {[ok |-> TRUE, content |-> t] : t \in Texts}

EmptyDict == [k \in {} |-> None]

\* Variant: the store is assigned the new dict instead of being updated.
UpdateReplace(d, other) == other

\* dict.update(other): other's keys win, the rest stay.
Update(d, other) ==
    [k \in (DOMAIN d) \cup (DOMAIN other) |->
        IF k \in DOMAIN other THEN other[k] ELSE d[k]]

\* d[k] = v on a dict
SetItem(d, k, v) == [x \in (DOMAIN d) \cup {k} |-> IF x = k THEN v ELSE d[x]]

\* ------------------------------------------------------------ state
VARIABLES
    reports,      \* st.session_state.reports : keyword -> record
    cache,        \* st.cache_data store of generate_analysis
    pc,           \* "done" (no run in progress) | "loop" (inside run_agent)
    keywords,     \* argument of the run in progress (or of the last run)
    idx,          \* position of the for loop in keywords
    new_reports,  \* local dict of run_agent
    runs,         \* number of runs started; stands for the clock
    lastGen,      \* observation of the latest generate_analysis invocation
    fetched,      \* history: guardian_search result per processed position
    prevReports,  \* history: reports when the run started
    seen,         \* history: <<key, result>> of every generate_analysis call
    ncalls        \* number of direct generate_analysis calls (SpecGen)

vars == <<reports, cache, pc, keywords, idx, new_reports, runs, lastGen,
          fetched, prevReports, seen, ncalls>>

NoGen == [invoked |-> FALSE]

\* ------------------------------------------------------------ functions

\* guardian_search: the results list, or [] when the request raised.
guardian_search(resp) ==
    IF resp.ok THEN resp.results ELSE <<>>

\* Variant: the summary call is not wrapped in try/except, so its exception
\* leaves the function.
generate_analysis_uncaught(keyword, articles, previous_articles, trend_response, summary_response) ==
    LET trendCalled == Truthy(previous_articles)
    IN [calls   |-> (IF trendCalled THEN <<"trend">> ELSE <<>>) \o <<"summary">>,
        responses |-> (IF trendCalled THEN <<trend_response>> ELSE <<>>)
                        \o <<summary_response>>,
        errors  |-> IF trendCalled /\ ~trend_response.ok THEN <<"trend">> ELSE <<>>,
        raised  |-> ~summary_response.ok,
        result  |-> <<IF summary_response.ok THEN summary_response.content
                                              ELSE SummaryFailedText,
                      IF trendCalled /\ trend_response.ok THEN trend_response.content
                                                          ELSE NoDataText>>]

\* The body of generate_analysis for given outcomes of its (up to) two model
\* calls.  calls: the model calls made, in order; errors: the st.error
\* messages shown.
generate_analysis(keyword, articles, previous_articles, trend_response, summary_response) ==
    LET trendCalled == Truthy(previous_articles)
        trend_change_text ==
            IF trendCalled /\ trend_response.ok
            THEN trend_response.content
            ELSE NoDataText
        current_summary ==
            IF summary_response.ok
            THEN summary_response.content
            ELSE SummaryFailedText
    IN [calls   |-> (IF trendCalled THEN <<"trend">> ELSE <<>>) \o <<"summary">>,
        responses |-> (IF trendCalled THEN <<trend_response>> ELSE <<>>)
                        \o <<summary_response>>,
        errors  |-> (IF trendCalled /\ ~trend_response.ok THEN <<"trend">> ELSE <<>>)
                        \o (IF ~summary_response.ok THEN <<"summary">> ELSE <<>>),
        raised  |-> FALSE,
        result  |-> <<current_summary, trend_change_text>>]

\* Variant: a result produced after a model error is not stored.
CacheableNoErrors(out) == out.errors = <<>>

\* st.cache_data: which computed results are stored under their key.
Cacheable(out) == ~out.raised

\* One invocation of the decorated generate_analysis: the observation record
\* and the cache afterwards.
CachedCall(c, keyword, articles, previous_articles, trend_response, summary_response) ==
    LET key == <<keyword, articles, previous_articles>>
    IN IF key \in DOMAIN c
       THEN [obs |-> [invoked |-> TRUE, key |-> key, hit |-> TRUE,
                      calls |-> <<>>, responses |-> <<>>, errors |-> <<>>,
                      raised |-> FALSE,
                      result |-> c[key]],
             cache |-> c]
       ELSE LET out == generate_analysis(keyword, articles, previous_articles,
                                         trend_response, summary_response)
            IN [obs |-> [invoked |-> TRUE, key |-> key, hit |-> FALSE,
                         calls |-> out.calls, errors |-> out.errors,
                         responses |-> out.responses, raised |-> out.raised,
                         result |-> out.result],
                cache |-> IF Cacheable(out) THEN SetItem(c, key, out.result) ELSE c]

\* Variant: the record built earlier in the same run is read first.
PreviousArticlesLatest(store, keyword) ==
    IF keyword \in DOMAIN new_reports THEN Some(new_reports[keyword].current)
    ELSE IF keyword \in DOMAIN store THEN Some(store[keyword].current)
    ELSE None

\* Variant: the wrong field of the stored record is read.
PreviousArticlesWrongField(store, keyword) ==
    IF keyword \in DOMAIN store THEN Some(store[keyword].previous) ELSE None

\* lines 129-130: reports.get(keyword, {}).get('current')
PreviousArticles(store, keyword) ==
    IF keyword \in DOMAIN store THEN Some(store[keyword].current) ELSE None

\* Variant: the new record does not take over the earlier articles.
NewRecordNoRotation(articles, previous_articles, result, now) ==
    [current         |-> articles,
     previous        |-> <<>>,
     current_summary |-> result[1],
     trend_change    |-> result[2],
     last_updated    |-> now]

\* lines 136-142: the record built for a keyword
NewRecord(articles, previous_articles, result, now) ==
    [current         |-> articles,
     previous        |-> IF Truthy(previous_articles) THEN previous_articles.val ELSE <<>>,
     current_summary |-> result[1],
     trend_change    |-> result[2],
     last_updated    |-> now]

\* ------------------------------------------------------------ actions
Init ==
    /\ reports = EmptyDict
    /\ cache = EmptyDict
    /\ pc = "done"
    /\ keywords = <<>>
    /\ idx = 1
    /\ new_reports = EmptyDict
    /\ runs = 0
    /\ lastGen = NoGen
    /\ fetched = <<>>
    /\ prevReports = EmptyDict
    /\ seen = {}
    /\ ncalls = 0

\* lines 114-118: entry of run_agent
StartRun(kws) ==
    /\ pc = "done"
    /\ runs < MaxRuns
    /\ pc' = "loop"
    /\ keywords' = kws
    /\ idx' = 1
    /\ new_reports' = EmptyDict
    /\ runs' = runs + 1
    /\ lastGen' = NoGen
    /\ fetched' = <<>>
    /\ prevReports' = reports
    /\ UNCHANGED <<reports, cache, seen, ncalls>>

\* lines 167-171: "Run Search & Analysis"; without keywords only a warning
ClickRun ==
    \E kws \in KeywordLists : StartRun(kws)

\* lines 173-179: "Refresh & Compare Trends"; without keywords or without
\* stored reports only a warning
ClickRefresh ==
    \E kws \in KeywordLists :
        /\ DOMAIN reports # {}
        /\ StartRun(kws)

\* Variant: the `continue` is missing, and a record is built from the empty
\* result.
SkipKeywordNoContinue ==
    /\ pc = "loop"
    /\ idx <= Len(keywords)
    /\ \E resp \in SearchResponses :
        LET articles == guardian_search(resp)
        IN /\ articles = <<>>
           /\ fetched' = Append(fetched, resp)
           /\ new_reports' = SetItem(new_reports, keywords[idx],
                  NewRecord(articles, PreviousArticles(reports, keywords[idx]),
                            <<SummaryFailedText, NoDataText>>, runs))
    /\ idx' = idx + 1
    /\ UNCHANGED <<reports, cache, pc, keywords, runs, lastGen,
                   prevReports, seen, ncalls>>

\* lines 120-126: an iteration whose search gave nothing
SkipKeyword ==
    /\ pc = "loop"
    /\ idx <= Len(keywords)
    /\ \E resp \in SearchResponses :
        LET articles == guardian_search(resp)
        IN /\ articles = <<>>
           /\ fetched' = Append(fetched, resp)
    /\ idx' = idx + 1
    /\ UNCHANGED <<reports, cache, pc, keywords, new_reports, runs, lastGen,
                   prevReports, seen, ncalls>>

\* The observation of a call, with whether its key was passed before.
Observe(call) ==
    call.obs @@ [repeat |-> call.obs.key \in {x[1] : x \in seen}]

\* lines 120-142: an iteration whose search gave articles.  An exception
\* leaving generate_analysis would leave run_agent too, before line 145.
AnalyzeKeyword ==
    /\ pc = "loop"
    /\ idx <= Len(keywords)
    /\ \E resp \in SearchResponses, tr \in ModelResponses, sr \in ModelResponses :
        LET keyword == keywords[idx]
            articles == guardian_search(resp)
            previous_articles == PreviousArticles(reports, keyword)
            call == CachedCall(cache, keyword, articles, previous_articles, tr, sr)
        IN /\ articles # <<>>
           /\ fetched' = Append(fetched, resp)
           /\ lastGen' = Observe(call)
           /\ cache' = call.cache
           /\ seen' = seen \cup {<<call.obs.key, call.obs.result>>}
           /\ IF call.obs.raised
              THEN /\ pc' = "done"
                   /\ UNCHANGED <<new_reports, idx>>
              ELSE /\ new_reports' = SetItem(new_reports, keyword,
                          NewRecord(articles, previous_articles, call.obs.result, runs))
                   /\ idx' = idx + 1
                   /\ pc' = pc
    /\ UNCHANGED <<reports, keywords, runs, prevReports, ncalls>>

\* lines 144-146: the loop is over; publish new_reports
FinishRun ==
    /\ pc = "loop"
    /\ idx > Len(keywords)
    /\ reports' = Update(reports, new_reports)
    /\ pc' = "done"
    /\ UNCHANGED <<cache, keywords, idx, new_reports, runs, lastGen, fetched,
                   prevReports, seen, ncalls>>

Next == ClickRun \/ ClickRefresh \/ SkipKeyword \/ AnalyzeKeyword \/ FinishRun

Spec == Init /\ [][Next]_vars

\* lines 47-112: generate_analysis called on its own, with any arguments
GenCall ==
    /\ ncalls < MaxCalls
    /\ \E keyword \in Keywords, articles \in ArticleLists, previous_articles \in Optionals,
          tr \in ModelResponses, sr \in ModelResponses :
        LET call == CachedCall(cache, keyword, articles, previous_articles, tr, sr)
        IN /\ lastGen' = Observe(call)
           /\ cache' = call.cache
           /\ seen' = seen \cup {<<call.obs.key, call.obs.result>>}
    /\ ncalls' = ncalls + 1
    /\ UNCHANGED <<reports, pc, keywords, idx, new_reports, runs, fetched, prevReports>>

SpecGen == Init /\ [][GenCall]_vars


\* ------------------------------------------------------------ properties

Range(f) == {f[i] : i \in DOMAIN f}

Max(S) == CHOOSE m \in S : \A x \in S : x <= m

\* A run has returned (line 146 was reached).
RunOver == pc = "done" /\ runs > 0

\* The positions of the last run at which keyword k was fetched, and those at
\* which the fetch gave articles.
Positions(k) == {i \in 1..Len(fetched) : keywords[i] = k}
Hits(k) == {i \in Positions(k) : guardian_search(fetched[i]) # <<>>}

\* The store's entry for k, present or absent, is the same in d and e.
SameEntry(d, e, k) ==
    /\ (k \in DOMAIN d) <=> (k \in DOMAIN e)
    /\ k \in DOMAIN d => d[k] = e[k]

\* C1: rotation.  When a run ends, every keyword that had a record before the
\* run and for which the run fetched articles has `previous` equal to the
\* `current` of the record the earlier run left, and `current` equal to the
\* articles the run fetched for it.
C1_Rotation ==
    RunOver =>
        \A k \in DOMAIN prevReports :
            Hits(k) # {} =>
                /\ k \in DOMAIN reports
                /\ reports[k].previous = prevReports[k].current
                /\ reports[k].current = guardian_search(fetched[Max(Hits(k))])

\* Two runs in succession fetched different, non-empty lists for a keyword.
C1_Witness ==
    /\ RunOver
    /\ runs = 2
    /\ \E k \in DOMAIN prevReports :
        /\ Hits(k) # {}
        /\ prevReports[k].last_updated = 1
        /\ reports[k].last_updated = 2
        /\ reports[k].current # prevReports[k].current
        /\ reports[k].previous = prevReports[k].current

\* C2: a keyword of the run's list for which every fetch of the run gave zero
\* articles (an empty result or a failed request) has the same store entry
\* after the run as before it: the same record, or still none.
C2_EmptyFetchKeepsEntry ==
    RunOver =>
        \A k \in Range(keywords) :
            Hits(k) = {} => SameEntry(reports, prevReports, k)

\* A run that changed the store, in which one keyword's request failed while
\* it had a record and another keyword's result was empty while it had none.
C2_Witness ==
    /\ RunOver
    /\ reports # prevReports
    /\ \E i \in 1..Len(fetched) :
        /\ ~fetched[i].ok
        /\ Hits(keywords[i]) = {}
        /\ keywords[i] \in DOMAIN prevReports
        /\ reports[keywords[i]] = prevReports[keywords[i]]

\* The same with an empty result for a keyword that has no record.
C2_WitnessAbsent ==
    /\ RunOver
    /\ reports # prevReports
    /\ \E i \in 1..Len(fetched) :
        /\ fetched[i].ok
        /\ Hits(keywords[i]) = {}
        /\ keywords[i] \notin DOMAIN reports

\* C3: an invocation of generate_analysis whose previous_articles is None or
\* the empty list returns the no-data sentence as trendChange and makes no
\* trend model call (at most the summary call).
C3_NoPreviousNoTrendCall ==
    (lastGen.invoked /\ (lastGen.key[3] = None \/ lastGen.key[3] = Some(<<>>))) =>
        /\ lastGen.result[2] = NoDataText
        /\ \A i \in 1..Len(lastGen.calls) : lastGen.calls[i] = "summary"

\* generate_analysis ran its body with previous_articles = [].
C3_Witness ==
    /\ lastGen.invoked
    /\ lastGen.key[3] = Some(<<>>)
    /\ ~lastGen.hit
    /\ lastGen.calls = <<"summary">>
    /\ lastGen.result[2] = NoDataText

\* C4: memoization.  All calls with the same (keyword, articles,
\* previous_articles) returned the same (summary, trendChange), and a call
\* whose tuple was passed before made no model call.
C4_Memoization ==
    /\ \A x \in seen : \A y \in seen : x[1] = y[1] => x[2] = y[2]
    /\ (lastGen.invoked /\ lastGen.repeat) => lastGen.calls = <<>>

\* A repeated call whose earlier output was the summary failure sentence.
C4_Witness ==
    /\ lastGen.invoked
    /\ lastGen.repeat
    /\ lastGen.result[1] = SummaryFailedText
    /\ runs > 0

\* The call of the given kind made in an invocation, as a set of responses.
ResponseOf(g, kind) ==
    {g.responses[i] : i \in {j \in 1..Len(g.calls) : g.calls[j] = kind}}

\* A failure placeholder: a fixed sentence that is neither a model text nor
\* the sentence that says no previous data exists.
FailurePlaceholder(text) == text \notin Texts \cup {NoDataText}

\* C5: a model call that fails inside generate_analysis does not make it
\* raise, the failed output becomes a failure placeholder of that output, and
\* the other model call is still made and its output is what it produced.
C5_FailureIsolated ==
    (lastGen.invoked /\ ~lastGen.hit) =>
        /\ ~lastGen.raised
        /\ ResponseOf(lastGen, "summary") # {}
        /\ Truthy(lastGen.key[3]) => ResponseOf(lastGen, "trend") # {}
        /\ \A r \in ResponseOf(lastGen, "summary") :
            IF r.ok THEN lastGen.result[1] = r.content
                    ELSE FailurePlaceholder(lastGen.result[1])
        /\ \A r \in ResponseOf(lastGen, "trend") :
            IF r.ok THEN lastGen.result[2] = r.content
                    ELSE FailurePlaceholder(lastGen.result[2])

\* C6: keyword independence.  When a run ends every position of the list was
\* processed, and every keyword for which the run fetched articles has a
\* record built by this run, whatever failed for the other keywords.
C6_KeywordIndependence ==
    RunOver =>
        /\ Len(fetched) = Len(keywords)
        /\ \A k \in Range(keywords) :
            Hits(k) # {} =>
                /\ k \in DOMAIN reports
                /\ reports[k].last_updated = runs
                /\ reports[k].current = guardian_search(fetched[Max(Hits(k))])

\* A run of two keywords: the first one's request failed or its summary call
\* failed, and the second one got its record.
C6_Witness ==
    /\ RunOver
    /\ Len(keywords) = 2
    /\ keywords[1] # keywords[2]
    /\ ~fetched[1].ok
    /\ Hits(keywords[2]) # {}
    /\ reports[keywords[2]].last_updated = runs

C6_WitnessGeneration ==
    /\ RunOver
    /\ Len(keywords) = 2
    /\ keywords[1] # keywords[2]
    /\ Hits(keywords[1]) # {}
    /\ reports[keywords[1]].current_summary = SummaryFailedText
    /\ reports[keywords[1]].last_updated = runs
    /\ Hits(keywords[2]) # {}
    /\ reports[keywords[2]].last_updated = runs

\* C7: a run leaves the entry of every keyword outside its list as it was,
\* and removes no key from the store.
C7_OnlyListedKeywords ==
    /\ pc = "loop" => reports = prevReports
    /\ RunOver =>
        /\ \A k \in Keywords \ Range(keywords) : SameEntry(reports, prevReports, k)
        /\ DOMAIN prevReports \subseteq DOMAIN reports

\* A run that wrote a record while another keyword, not in its list, had one.
C7_Witness ==
    /\ RunOver
    /\ reports # prevReports
    /\ \E k \in DOMAIN reports :
        /\ k \notin Range(keywords)
        /\ reports[k] = prevReports[k]

\* C8 as stated: the record of a keyword is in the store before the next
\* list element is processed, so when a keyword occurs twice in one list with
\* non-empty fetches, `previous` of the record left is the first fetch.
C8_Original ==
    RunOver =>
        \A k \in Range(keywords) :
            \A i \in Hits(k) : \A j \in Hits(k) :
                (i < j /\ j = Max(Hits(k)) /\ \A m \in Hits(k) : m <= i \/ m >= j)
                    => reports[k].previous = guardian_search(fetched[i])

\* C8 amended: the store is not written while the list is processed; the
\* "previous" argument of every generate_analysis call of a run is the
\* `current` the store held for the keyword when the run started (None if it
\* held none), and so is `previous` of the record the run leaves, also when
\* the keyword occurs twice in the list.
C8_PreviousIsPreRun ==
    /\ pc = "loop" => reports = prevReports
    /\ (runs > 0 /\ lastGen.invoked) =>
            lastGen.key[3] = PreviousArticles(prevReports, lastGen.key[1])
    /\ RunOver =>
        \A k \in Range(keywords) :
            Hits(k) # {} =>
                /\ reports[k].previous =
                       (IF k \in DOMAIN prevReports THEN prevReports[k].current ELSE <<>>)
                /\ reports[k].current = guardian_search(fetched[Max(Hits(k))])

\* One list held a keyword twice and both fetches gave different articles.
C8_Witness ==
    /\ RunOver
    /\ Len(keywords) = 2
    /\ keywords[1] = keywords[2]
    /\ Hits(keywords[1]) = {1, 2}
    /\ fetched[1] # fetched[2]
    /\ reports[keywords[1]].previous # guardian_search(fetched[1])

\* C9 as stated: a stored record's trend_change is the no-data sentence
\* exactly when its `previous` is empty.
C9_Original ==
    \A k \in DOMAIN reports :
        (reports[k].trend_change = NoDataText) <=> (reports[k].previous = <<>>)

\* C10: every stored record has a non-empty `current`; a record written for
\* a keyword that already had one has a non-empty `previous`.
C10_CurrentNonEmpty ==
    /\ \A k \in DOMAIN reports : reports[k].current # <<>>
    /\ \A k \in DOMAIN new_reports : new_reports[k].current # <<>>
    /\ RunOver =>
        \A k \in DOMAIN prevReports :
            reports[k] # prevReports[k] => reports[k].previous # <<>>

\* A second record was written for a keyword, and a first one (with empty
\* `previous`) for another, in the same store.
C10_Witness ==
    /\ RunOver
    /\ \E k \in DOMAIN prevReports :
        /\ reports[k] # prevReports[k]
        /\ reports[k].previous # <<>>
    /\ \E k \in DOMAIN reports : reports[k].previous = <<>>

====
